---- MODULE Spec2Model ----
(***************************************************************************)
(* A model of tui-wordle's round state machine (src/game.rs): the Guess    *)
(* (attempt) state machine, GameData (round) with add_letter,              *)
(* delete_letter and submit_word, and the two-pass scoring function        *)
(* check_guess.                                                            *)
(*                                                                         *)
(* Characters are one-letter strings; "NUL" stands for char::MIN, the      *)
(* character check_guess writes over a consumed answer position.           *)
(* Sequences are 1-based here and 0-based in the source: position i of the *)
(* source is position i+1 of the model.                                    *)
(***************************************************************************)
EXTENDS Integers, Sequences, FiniteSets, TLC

\* ------------------------------------------------------------------ bounds
\* Largest word_length / max_guesses of a GameOptions a round is built from.
MaxWordLength == 2
MaxGuesses == 2
\* Longest guess handed to check_guess in the scoring specification.
ScoreLen == 3

\* --------------------------------------------------------------- constants
\* u16 arithmetic (Guess::max_length, GameOptions::max_guesses are u16).
TwoPow16 == 65536

NUL == "NUL"

\* Characters a caller passes to GameData::add_letter (any char is accepted).
TypedChars == {"A", "B", "a", NUL}

\* Lines of the backing word list the answer is drawn from.  random_word
\* chooses among all lines of the file, whatever their length.
DictionaryLines ==
    { <<"A">>, <<"A", "B">>, <<"b", "a">>, <<"A", "A">>,
      <<"B", "A", "B">>, <<"A", "B", "A", "A">> }

\* ----------------------------------------------------------------- helpers
None == [some |-> FALSE, val |-> <<>>]
Some(v) == [some |-> TRUE, val |-> v]

\* char::to_ascii_uppercase: maps a..z to A..Z and leaves every other char.
AsciiLower == <<"a", "b", "l", "o", "y">>
AsciiUpper == <<"A", "B", "L", "O", "Y">>
to_ascii_uppercase(c) ==
    IF \E n \in 1..Len(AsciiLower) : AsciiLower[n] = c
    THEN AsciiUpper[CHOOSE n \in 1..Len(AsciiLower) : AsciiLower[n] = c]
    ELSE c

\* str::to_ascii_uppercase followed by chars().collect()
str_to_ascii_uppercase(s) == [i \in 1..Len(s) |-> to_ascii_uppercase(s[i])]

\* u16 subtraction
U16Sub(a, b) == (a - b) % TwoPow16

\* ------------------------------------------------------------------- Guess
Guess_new(max_length) ==
    [max_length |-> max_length, letters |-> <<>>, result |-> None,
     state |-> "Pending"]

make_vec_first_is_second(word_length, max_guesses) ==
    [i \in 1..max_guesses |->
        IF i - 1 = 1 THEN [Guess_new(word_length) EXCEPT !.state = "Active"]
        ELSE Guess_new(word_length)]

make_vec(word_length, max_guesses) ==
    [i \in 1..max_guesses |->
        IF i - 1 = 0 THEN [Guess_new(word_length) EXCEPT !.state = "Active"]
        ELSE Guess_new(word_length)]

remaining_letters(g) == U16Sub(g.max_length, Len(g.letters))

Guess_add_letter_push_first(g, c) ==
    LET pushed == [g EXCEPT !.letters = Append(@, c)]
    IN  IF remaining_letters(pushed) <= 0
        THEN [ret |-> "FullGuess", guess |-> pushed]
        ELSE [ret |-> "Ok", guess |-> pushed]

Guess_add_letter_no_check(g, c) ==
    [ret |-> "Ok", guess |-> [g EXCEPT !.letters = Append(@, c)]]

Guess_add_letter(g, c) ==
    IF remaining_letters(g) <= 0
    THEN [ret |-> "FullGuess", guess |-> g]
    ELSE [ret |-> "Ok", guess |-> [g EXCEPT !.letters = Append(@, c)]]

Guess_delete_letter(g) ==
    IF remaining_letters(g) = g.max_length
    THEN [ret |-> "EmptyGuess", guess |-> g]
    ELSE [ret |-> "Ok",
          guess |-> [g EXCEPT !.letters = SubSeq(@, 1, Len(@) - 1)]]

as_chars(g) == g.letters

\* Guess::values variant that yields the entered letters only.
values_no_padding(g) ==
    IF g.result.some
    THEN [i \in 1..(IF Len(g.letters) <= Len(g.result.val)
                    THEN Len(g.letters) ELSE Len(g.result.val)) |->
             [letter |-> g.letters[i], result |-> g.result.val[i]]]
    ELSE [i \in 1..Len(g.letters) |->
             [letter |-> to_ascii_uppercase(g.letters[i]), result |-> "Empty"]]

\* Guess::values: zip(letters, results) when scored; otherwise max_length
\* pairs (' ', Empty) overwritten from the left by the entered letters.
values(g) ==
    IF g.result.some
    THEN [i \in 1..(IF Len(g.letters) <= Len(g.result.val)
                    THEN Len(g.letters) ELSE Len(g.result.val)) |->
             [letter |-> g.letters[i], result |-> g.result.val[i]]]
    ELSE [i \in 1..g.max_length |->
             IF i <= Len(g.letters)
             THEN [letter |-> to_ascii_uppercase(g.letters[i]),
                   result |-> "Empty"]
             ELSE [letter |-> " ", result |-> "Empty"]]

complete_guess_state_only(g, result) ==
    [g EXCEPT !.state = "Complete"]

complete_guess(g, result) ==
    [g EXCEPT !.result = Some(result), !.state = "Complete"]

\* ------------------------------------------------------------- check_guess
\* The loops of check_guess run over a record
\*   [panic, answer_chars, result]
\* panic: an index was out of bounds (Rust aborts the call with a panic).

\* answer_chars.iter().position(|&a| a.to_ascii_uppercase() == g), 0 if None
position(answer_chars, g) ==
    LET hits == {p \in 1..Len(answer_chars) :
                    to_ascii_uppercase(answer_chars[p]) = g}
    IN  IF hits = {} THEN 0
        ELSE CHOOSE p \in hits : \A q \in hits : p <= q

RECURSIVE FirstPassLoop(_, _, _)
FirstPassLoop(i, guess_chars, st) ==
    IF i > Len(guess_chars) THEN st
    ELSE IF i > Len(st.answer_chars) THEN [st EXCEPT !.panic = TRUE]
    ELSE IF guess_chars[i] = to_ascii_uppercase(st.answer_chars[i])
    THEN IF i > Len(st.result) THEN [st EXCEPT !.panic = TRUE]
         ELSE FirstPassLoop(i + 1, guess_chars,
                  [st EXCEPT !.result[i] = "Correct",
                             !.answer_chars[i] = NUL])
    ELSE FirstPassLoop(i + 1, guess_chars, st)

first_pass_skip_first(guess_chars, st) == FirstPassLoop(2, guess_chars, st)

first_pass(guess_chars, st) == FirstPassLoop(1, guess_chars, st)

RECURSIVE SecondPassLoop(_, _, _)
SecondPassLoop(i, guess_chars, st) ==
    IF i > Len(guess_chars) THEN st
    ELSE IF i > Len(st.result) THEN [st EXCEPT !.panic = TRUE]
    ELSE IF st.result[i] = "Correct"
    THEN SecondPassLoop(i + 1, guess_chars, st)
    ELSE LET pos == position(st.answer_chars, guess_chars[i])
         IN  IF pos # 0
             THEN SecondPassLoop(i + 1, guess_chars,
                      [st EXCEPT !.result[i] = "Present",
                                 !.answer_chars[pos] = NUL])
             ELSE SecondPassLoop(i + 1, guess_chars, st)

\* A second pass that does not mark the matched answer character as used.
RECURSIVE SecondPassLoop_no_consume(_, _, _)
SecondPassLoop_no_consume(i, guess_chars, st) ==
    IF i > Len(guess_chars) THEN st
    ELSE IF i > Len(st.result) THEN [st EXCEPT !.panic = TRUE]
    ELSE IF st.result[i] = "Correct"
    THEN SecondPassLoop_no_consume(i + 1, guess_chars, st)
    ELSE LET pos == position(st.answer_chars, guess_chars[i])
         IN  IF pos # 0
             THEN SecondPassLoop_no_consume(i + 1, guess_chars,
                      [st EXCEPT !.result[i] = "Present"])
             ELSE SecondPassLoop_no_consume(i + 1, guess_chars, st)

\* A second pass that looks for the letter only from the guess position on.
RECURSIVE SecondPassLoop_from_i(_, _, _)
SecondPassLoop_from_i(i, guess_chars, st) ==
    IF i > Len(guess_chars) THEN st
    ELSE IF i > Len(st.result) THEN [st EXCEPT !.panic = TRUE]
    ELSE IF st.result[i] = "Correct"
    THEN SecondPassLoop_from_i(i + 1, guess_chars, st)
    ELSE LET hits == {p \in i..Len(st.answer_chars) :
                         to_ascii_uppercase(st.answer_chars[p]) = guess_chars[i]}
         IN  IF hits # {}
             THEN SecondPassLoop_from_i(i + 1, guess_chars,
                      [st EXCEPT !.result[i] = "Present",
                                 !.answer_chars[CHOOSE p \in hits :
                                     \A q \in hits : p <= q] = NUL])
             ELSE SecondPassLoop_from_i(i + 1, guess_chars, st)

\* A second pass that walks the guess from its last position to its first.
RECURSIVE SecondPassLoop_backwards(_, _, _)
SecondPassLoop_backwards(i, guess_chars, st) ==
    IF i < 1 THEN st
    ELSE IF i > Len(st.result) THEN [st EXCEPT !.panic = TRUE]
    ELSE IF st.result[i] = "Correct"
    THEN SecondPassLoop_backwards(i - 1, guess_chars, st)
    ELSE LET pos == position(st.answer_chars, guess_chars[i])
         IN  IF pos # 0
             THEN SecondPassLoop_backwards(i - 1, guess_chars,
                      [st EXCEPT !.result[i] = "Present",
                                 !.answer_chars[pos] = NUL])
             ELSE SecondPassLoop_backwards(i - 1, guess_chars, st)

second_pass_backwards(guess_chars, st) ==
    SecondPassLoop_backwards(Len(guess_chars), guess_chars, st)

second_pass_no_consume(guess_chars, st) ==
    SecondPassLoop_no_consume(1, guess_chars, st)

second_pass_from_i(guess_chars, st) ==
    SecondPassLoop_from_i(1, guess_chars, st)

second_pass(guess_chars, st) == SecondPassLoop(1, guess_chars, st)

check_guess_start(answer, word_length) ==
    [panic |-> FALSE,
     answer_chars |-> str_to_ascii_uppercase(answer),
     result |-> [i \in 1..word_length |-> "Absent"]]

check_guess(answer, word_length, guess_chars) ==
    LET st1 == first_pass(guess_chars, check_guess_start(answer, word_length))
    IN  IF st1.panic THEN st1 ELSE second_pass(guess_chars, st1)

\* ---------------------------------------------------------------- GameData
AllCorrect(result) == \A i \in 1..Len(result) : result[i] = "Correct"

\* guess_idx is the source's 0-based index of the guess just completed.
update_game_state_last_first(gstate, opts, gs, guess_idx, result) ==
    IF ~(U16Sub(U16Sub(opts.max_guesses, guess_idx), 1) > 0)
    THEN [game_state |-> "Lost", guesses |-> gs]
    ELSE IF AllCorrect(result)
    THEN [game_state |-> "Won", guesses |-> gs]
    ELSE [game_state |-> gstate,
          guesses |-> [gs EXCEPT ![guess_idx + 1 + 1].state = "Active"]]

update_game_state(gstate, opts, gs, guess_idx, result) ==
    IF AllCorrect(result)
    THEN [game_state |-> "Won", guesses |-> gs]
    ELSE IF U16Sub(U16Sub(opts.max_guesses, guess_idx), 1) > 0
    THEN [game_state |-> gstate,
          guesses |-> [gs EXCEPT ![guess_idx + 1 + 1].state = "Active"]]
    ELSE [game_state |-> "Lost", guesses |-> gs]

\* An active_guess that takes the first guess that is not Pending.
active_guess_not_pending(gs) ==
    LET act == {k \in 1..Len(gs) : gs[k].state # "Pending"}
    IN  IF act = {} THEN 0 ELSE CHOOSE k \in act : \A j \in act : k <= j

\* Position (1-based) of the first Active guess, 0 for None.
active_guess(gs) ==
    LET act == {k \in 1..Len(gs) : gs[k].state = "Active"}
    IN  IF act = {} THEN 0 ELSE CHOOSE k \in act : \A j \in act : k <= j

is_active(gstate) == gstate = "Active"

VARIABLES
    game_state,     \* GameData::game_state
    answer,         \* GameData::answer
    game_options,   \* GameData::game_options, the snapshot taken by new
    guesses,        \* GameData::guesses
    last_call,      \* the last call made on the round and what it returned
    panicked,       \* the process aborted with a panic
    sc_answer, sc_word_length, sc_guess, sc_pc, sc_st,
                    \* one evaluation of check_guess, pass by pass
    cfg,            \* a GameOptions value (Application::game_options)
    cfg_ret,        \* what the last call on cfg returned
    od,             \* an OptionData value
    d_length,       \* Dictionary::length of the dictionary under test
    d_lazy,         \* Dictionary::all_words: "uninit" or "closure"
    d_file,         \* the backing file: [readable, lines]
    d_reads,        \* number of fs::read_to_string calls made so far
    d_calls,        \* number of random_word calls made so far
    d_first,        \* what the first random_word call returned
    d_ret,          \* what the last random_word call returned
    reg_cache,      \* per thread: DICTIONARY_CACHE (0 = not initialised)
    reg_built,      \* number of catalogs constructed in the process
    reg_got,        \* per thread: handles the last get_dictionaries returned
    reg_prev,       \* per thread: handles the call before that returned
    reg_calls,      \* per thread: number of get_dictionaries calls
    app_game,       \* Application::game_state: "None" or "Some" (the round)
    app_ret,        \* what the last key handler returned
    fs,             \* the word-list files: file name -> [readable, lines]
    app_state,      \* Application::app_state, the ScreenMode
    app_options,    \* Application::options_state: "None" or "Some" (od)
    app_keys        \* number of key events the loop has handled

round_vars == <<game_state, answer, game_options, guesses>>
score_vars == <<sc_answer, sc_word_length, sc_guess, sc_pc, sc_st>>
config_vars == <<cfg, cfg_ret, od>>
dict_vars == <<d_length, d_lazy, d_file, d_reads, d_calls, d_first, d_ret>>
reg_vars == <<reg_cache, reg_built, reg_got, reg_prev, reg_calls>>
app_vars == <<app_game, app_ret, fs, app_state, app_options, app_keys>>
vars == <<game_state, answer, game_options, guesses, last_call, panicked,
          sc_answer, sc_word_length, sc_guess, sc_pc, sc_st,
          cfg, cfg_ret, od,
          d_length, d_lazy, d_file, d_reads, d_calls, d_first, d_ret,
          reg_cache, reg_built, reg_got, reg_prev, reg_calls,
          app_game, app_ret, fs, app_state, app_options, app_keys>>

\* Threads that call get_dictionaries.
Threads == {1, 2, 3}

\* The parts of the state a specification does not use stay at these values.
ConfigIdle ==
    /\ cfg = [word_length |-> 0, max_guesses |-> 0, dictionary |-> 0]
    /\ cfg_ret = "none"
    /\ od = [dictionary_name |-> "", dictionary_length |-> 0, max_tries |-> 0]

DictIdle ==
    /\ d_length = 0
    /\ d_lazy = "uninit"
    /\ d_file = [readable |-> FALSE, lines |-> <<>>]
    /\ d_reads = 0
    /\ d_calls = 0
    /\ d_first = "none"
    /\ d_ret = [ok |-> FALSE, err |-> "none", word |-> <<>>]

RegIdle ==
    /\ reg_cache = [t \in Threads |-> 0]
    /\ reg_built = 0
    /\ reg_got = [t \in Threads |-> <<>>]
    /\ reg_prev = [t \in Threads |-> <<>>]
    /\ reg_calls = [t \in Threads |-> 0]

AppIdle ==
    /\ app_game = "None"
    /\ app_ret = "none"
    /\ fs = <<>>
    /\ app_state = "Game"
    /\ app_options = "None"
    /\ app_keys = 0

ScoreIdle ==
    /\ sc_answer = <<>>
    /\ sc_word_length = 0
    /\ sc_guess = <<>>
    /\ sc_pc = "idle"
    /\ sc_st = check_guess_start(<<>>, 0)

\* GameData::new(opts): the answer is whatever line random_word returned.
GameData_new ==
    /\ game_options \in [word_length : 1..MaxWordLength,
                         max_guesses : 0..MaxGuesses]
    /\ answer \in DictionaryLines
    /\ game_state = "Active"
    /\ guesses = make_vec(game_options.word_length, game_options.max_guesses)
    /\ last_call = [op |-> "new", ret |-> "Ok"]
    /\ panicked = FALSE

Init ==
    GameData_new /\ ScoreIdle /\ ConfigIdle /\ DictIdle /\ RegIdle /\ AppIdle

add_letter_no_active_check(gstate, gs, val) ==
    LET idx == active_guess(gs)
    IN  IF idx = 0 THEN [ret |-> "NoActiveGuess", guesses |-> gs]
        ELSE LET r == Guess_add_letter(gs[idx], to_ascii_uppercase(val))
             IN  [ret |-> r.ret, guesses |-> [gs EXCEPT ![idx] = r.guess]]

\* An add_letter that stores the character as typed.
add_letter_as_typed(gstate, gs, val) ==
    IF ~is_active(gstate) THEN [ret |-> "NoActiveGame", guesses |-> gs]
    ELSE LET idx == active_guess(gs)
         IN  IF idx = 0 THEN [ret |-> "NoActiveGuess", guesses |-> gs]
             ELSE LET r == Guess_add_letter(gs[idx], val)
                  IN  [ret |-> r.ret,
                       guesses |-> [gs EXCEPT ![idx] = r.guess]]

add_letter(gstate, gs, val) ==
    IF ~is_active(gstate) THEN [ret |-> "NoActiveGame", guesses |-> gs]
    ELSE LET idx == active_guess(gs)
         IN  IF idx = 0 THEN [ret |-> "NoActiveGuess", guesses |-> gs]
             ELSE LET r == Guess_add_letter(gs[idx], to_ascii_uppercase(val))
                  IN  [ret |-> r.ret,
                       guesses |-> [gs EXCEPT ![idx] = r.guess]]

delete_letter(gstate, gs) ==
    IF ~is_active(gstate) THEN [ret |-> "NoActiveGame", guesses |-> gs]
    ELSE LET idx == active_guess(gs)
         IN  IF idx = 0 THEN [ret |-> "NoActiveGuess", guesses |-> gs]
             ELSE LET r == Guess_delete_letter(gs[idx])
                  IN  [ret |-> r.ret,
                       guesses |-> [gs EXCEPT ![idx] = r.guess]]

\* submit_word: [ret, game_state, guesses]; ret = "panic" when check_guess
\* panics, which happens before complete_guess is reached.
submit_word(gstate, ans, opts, gs) ==
    IF gstate # "Active"
    THEN [ret |-> "NoActiveGame", game_state |-> gstate, guesses |-> gs]
    ELSE LET idx == active_guess(gs)
         IN  IF idx = 0
             THEN [ret |-> "InternalError", game_state |-> gstate,
                   guesses |-> gs]
             ELSE IF remaining_letters(gs[idx]) > 0
             THEN [ret |-> "IncompleteGuess", game_state |-> gstate,
                   guesses |-> gs]
             ELSE LET st == check_guess(ans, opts.word_length,
                                        as_chars(gs[idx]))
                  IN  IF st.panic
                      THEN [ret |-> "panic", game_state |-> gstate,
                            guesses |-> gs]
                      ELSE LET gs1 == [gs EXCEPT ![idx] =
                                          complete_guess(@, st.result)]
                               upd == update_game_state(gstate, opts, gs1,
                                                        idx - 1, st.result)
                           IN  [ret |-> upd.game_state,
                                game_state |-> upd.game_state,
                                guesses |-> upd.guesses]

AddLetter(val) ==
    /\ ~panicked
    /\ LET r == add_letter(game_state, guesses, val)
       IN  /\ guesses' = r.guesses
           /\ last_call' = [op |-> "add_letter", ret |-> r.ret]
    /\ UNCHANGED <<game_state, answer, game_options, panicked>>
    /\ UNCHANGED <<score_vars, config_vars, dict_vars, reg_vars, app_vars>>

DeleteLetter ==
    /\ ~panicked
    /\ LET r == delete_letter(game_state, guesses)
       IN  /\ guesses' = r.guesses
           /\ last_call' = [op |-> "delete_letter", ret |-> r.ret]
    /\ UNCHANGED <<game_state, answer, game_options, panicked>>
    /\ UNCHANGED <<score_vars, config_vars, dict_vars, reg_vars, app_vars>>

SubmitWord ==
    /\ ~panicked
    /\ LET r == submit_word(game_state, answer, game_options, guesses)
       IN  /\ game_state' = r.game_state
           /\ guesses' = r.guesses
           /\ last_call' = [op |-> "submit_word", ret |-> r.ret]
           /\ panicked' = (r.ret = "panic")
    /\ UNCHANGED <<answer, game_options>>
    /\ UNCHANGED <<score_vars, config_vars, dict_vars, reg_vars, app_vars>>

Next ==
    \/ \E val \in TypedChars : AddLetter(val)
    \/ DeleteLetter
    \/ SubmitWord

Spec == Init /\ [][Next]_vars

\* ------------------------------------------------------ properties, Spec
ActiveIdx == active_guess(guesses)

\* The Active guess exists, is full, and a call on the Active round is possible.
FullActiveGuess ==
    /\ game_state = "Active"
    /\ ActiveIdx # 0
    /\ Len(guesses[ActiveIdx].letters) = guesses[ActiveIdx].max_length

\* C2: in every completed attempt, position i is scored Correct if and only
\* if the guess letter at i equals the upper-cased answer letter at i; so a
\* position whose letters match is never Present or Absent.
C2_CorrectIffSameLetter ==
    \A k \in 1..Len(guesses) :
        guesses[k].state = "Complete" =>
            /\ guesses[k].result.some
            /\ Len(guesses[k].result.val) = Len(guesses[k].letters)
            /\ \A i \in 1..Len(guesses[k].letters) :
                   (guesses[k].result.val[i] = "Correct")
                     <=> (/\ i <= Len(answer)
                          /\ guesses[k].letters[i]
                                = to_ascii_uppercase(answer[i]))

\* A scored attempt with a Correct position matched against a lower-case
\* answer letter and another position that is not Correct.
C2_Witness ==
    \E k \in 1..Len(guesses) :
        /\ guesses[k].state = "Complete"
        /\ \E i, j \in 1..Len(guesses[k].letters) :
               /\ guesses[k].result.val[i] = "Correct"
               /\ answer[i] # guesses[k].letters[i]
               /\ guesses[k].result.val[j] # "Correct"

\* C5: submitting a full guess equal to the (upper-cased) answer in an Active
\* round returns Won and makes the round Won in that step, on any attempt,
\* and leaves no attempt Active.
C5_MatchingGuessWins ==
    [][ ( /\ last_call'.op = "submit_word"
          /\ FullActiveGuess
          /\ guesses[ActiveIdx].letters = str_to_ascii_uppercase(answer) )
        => ( /\ last_call'.ret = "Won"
             /\ game_state' = "Won"
             /\ guesses'[ActiveIdx].state = "Complete"
             /\ \A k \in 1..Len(guesses') : guesses'[k].state # "Active" )
      ]_vars

\* A round won on its final attempt, after an earlier failed attempt.
C5_Witness ==
    /\ game_state = "Won"
    /\ last_call = [op |-> "submit_word", ret |-> "Won"]
    /\ Len(guesses) >= 2
    /\ guesses[Len(guesses)].state = "Complete"

\* C6: with max_guesses = N >= 1, submitting a full guess that does not match
\* the answer returns Active while the attempt is one of the first N-1 and
\* Lost on the Nth; a submission after that fails with NoActiveGame and the
\* round stays Lost.
C6_LostOnNthSubmission ==
    /\ [][ ( /\ last_call'.op = "submit_word"
             /\ game_options.max_guesses >= 1
             /\ FullActiveGuess
             /\ guesses[ActiveIdx].letters # str_to_ascii_uppercase(answer) )
           => IF ActiveIdx < game_options.max_guesses
              THEN last_call'.ret = "Active" /\ game_state' = "Active"
              ELSE last_call'.ret = "Lost" /\ game_state' = "Lost"
         ]_vars
    /\ [][ (last_call'.op = "submit_word" /\ game_state = "Lost")
           => (last_call'.ret = "NoActiveGame" /\ game_state' = "Lost")
         ]_vars

\* C7: while a round with max_guesses >= 1 is Active, exactly one attempt is
\* Active, every attempt before it is Complete and every one after Pending.
C7_OneActiveAttempt ==
    (game_options.max_guesses >= 1 /\ game_state = "Active") =>
        /\ Cardinality({k \in 1..Len(guesses) :
                            guesses[k].state = "Active"}) = 1
        /\ \A j \in 1..Len(guesses) :
               /\ j < ActiveIdx => guesses[j].state = "Complete"
               /\ j > ActiveIdx => guesses[j].state = "Pending"

\* An Active round whose second attempt is the Active one.
C7_Witness ==
    /\ game_state = "Active"
    /\ Len(guesses) >= 2
    /\ guesses[1].state = "Complete"
    /\ guesses[2].state = "Active"

\* C8: once the round is Won or Lost every call fails with NoActiveGame and
\* changes neither the round state, the answer nor any attempt.
C8_TerminalAbsorbing ==
    [][ (game_state = "Won" \/ game_state = "Lost")
        => ( /\ last_call'.ret = "NoActiveGame"
             /\ game_state' = game_state
             /\ answer' = answer
             /\ guesses' = guesses )
      ]_vars

\* A call made on a finished round.
C8_Witness ==
    /\ game_state \in {"Won", "Lost"}
    /\ last_call = [op |-> "add_letter", ret |-> "NoActiveGame"]

FailureRets ==
    {"FullGuess", "EmptyGuess", "IncompleteGuess", "NoActiveGame",
     "NoActiveGuess", "InternalError"}

\* C9: a call that returns a failure leaves round state, answer, options and
\* every attempt as they were.
C9_FailedCallsChangeNothing ==
    [][ (last_call'.ret \in FailureRets) => UNCHANGED round_vars ]_vars

\* A submit refused on a partly filled attempt.
C9_Witness ==
    /\ last_call = [op |-> "submit_word", ret |-> "IncompleteGuess"]
    /\ ActiveIdx # 0
    /\ Len(guesses[ActiveIdx].letters) >= 1

\* C10: every attempt holds between 0 and max_length letters; add_letter on a
\* full attempt fails with FullGuess and appends nothing, delete_letter on an
\* empty attempt fails with EmptyGuess and removes nothing.
C10_LetterCountWithinBounds ==
    /\ [](\A k \in 1..Len(guesses) :
             Len(guesses[k].letters) \in 0..guesses[k].max_length)
    /\ [][ (last_call'.op = "add_letter" /\ FullActiveGuess)
           => (last_call'.ret = "FullGuess" /\ guesses' = guesses) ]_vars
    /\ [][ ( /\ last_call'.op = "delete_letter"
             /\ game_state = "Active"
             /\ ActiveIdx # 0
             /\ guesses[ActiveIdx].letters = <<>> )
           => (last_call'.ret = "EmptyGuess" /\ guesses' = guesses) ]_vars

\* add_letter refused on a full attempt.
C10_Witness ==
    /\ last_call = [op |-> "add_letter", ret |-> "FullGuess"]
    /\ FullActiveGuess

\* C11: an attempt has outcomes if and only if it is Complete; a Complete
\* attempt holds exactly max_length letters and max_length outcomes, none
\* Empty; outcomes are written in the step that makes the attempt Complete
\* and never change afterwards.
C11_OutcomesIffComplete ==
    /\ [](\A k \in 1..Len(guesses) :
             /\ guesses[k].result.some <=> guesses[k].state = "Complete"
             /\ guesses[k].state = "Complete" =>
                    /\ Len(guesses[k].letters) = guesses[k].max_length
                    /\ Len(guesses[k].result.val) = guesses[k].max_length
                    /\ \A i \in 1..Len(guesses[k].result.val) :
                           guesses[k].result.val[i]
                               \in {"Absent", "Present", "Correct"})
    /\ [][ \A k \in 1..Len(guesses) :
              /\ guesses[k].result.some =>
                     guesses'[k].result = guesses[k].result
              /\ (~guesses[k].result.some /\ guesses'[k].result.some) =>
                     (guesses[k].state = "Active"
                        /\ guesses'[k].state = "Complete")
         ]_vars

\* A scored first attempt next to a second attempt without outcomes.
C11_Witness ==
    /\ Len(guesses) >= 2
    /\ guesses[1].state = "Complete"
    /\ guesses[1].result.some
    /\ Len(guesses[1].result.val) = guesses[1].max_length
    /\ ~guesses[2].result.some

\* C23: the read projection of every attempt has word_length pairs; without
\* outcomes the first k pairs hold the k entered letters with Empty and the
\* rest a blank with Empty; a Complete attempt's pair i holds letter i and
\* its outcome.
C23_ProjectionHasWordLengthPairs ==
    \A k \in 1..Len(guesses) :
        LET g == guesses[k]
            v == values(g)
        IN  /\ Len(v) = game_options.word_length
            /\ ~g.result.some =>
                   \A i \in 1..Len(v) :
                       /\ v[i].result = "Empty"
                       /\ i <= Len(g.letters) => v[i].letter = g.letters[i]
                       /\ i > Len(g.letters) => v[i].letter = " "
            /\ g.state = "Complete" =>
                   \A i \in 1..Len(v) :
                       /\ v[i].letter = g.letters[i]
                       /\ v[i].result = g.result.val[i]
                       /\ v[i].result # "Empty"

\* A scored attempt next to a partly filled one.
C23_Witness ==
    /\ Len(guesses) >= 2
    /\ guesses[1].state = "Complete"
    /\ guesses[2].state = "Active"
    /\ Len(guesses[2].letters) = 1
    /\ guesses[2].max_length = 2
    /\ values(guesses[2])[2].letter = " "

\* C25: an attempt's state only moves Pending -> Active -> Complete, one
\* step at a time, and a Complete attempt's letters and outcomes never
\* change.
C25_AttemptStatesOnlyAdvance ==
    [][ /\ Len(guesses') = Len(guesses)
        /\ \A k \in 1..Len(guesses) :
               /\ <<guesses[k].state, guesses'[k].state>> \in
                      { <<"Pending", "Pending">>, <<"Pending", "Active">>,
                        <<"Active", "Active">>, <<"Active", "Complete">>,
                        <<"Complete", "Complete">> }
               /\ guesses[k].state = "Complete" =>
                      /\ guesses'[k].letters = guesses[k].letters
                      /\ guesses'[k].result = guesses[k].result
      ]_vars

\* A lost round: both attempts went from Pending or Active to Complete.
C25_Witness ==
    /\ game_state = "Lost"
    /\ Len(guesses) = 2
    /\ guesses[1].state = "Complete"
    /\ guesses[2].state = "Complete"
    /\ guesses[1].letters # guesses[2].letters

\* C26: a successful add_letter(c) appends the upper-cased c to the Active
\* attempt's letters and a successful delete_letter removes its last letter;
\* both leave the round state, the answer, every attempt's state, the other
\* attempts and the Active attempt's absent outcomes unchanged.  submit_word
\* never changes the answer.
C26_LetterEditsTouchOnlyActiveLetters ==
    /\ [][ \A val \in TypedChars :
              (AddLetter(val) /\ last_call'.ret = "Ok") =>
                  /\ ActiveIdx # 0
                  /\ guesses'[ActiveIdx].letters
                       = Append(guesses[ActiveIdx].letters,
                                to_ascii_uppercase(val))
                  /\ guesses' = [guesses EXCEPT ![ActiveIdx].letters =
                                     guesses'[ActiveIdx].letters]
                  /\ ~guesses'[ActiveIdx].result.some
                  /\ game_state' = game_state
                  /\ answer' = answer
         ]_vars
    /\ [][ (last_call'.op = "delete_letter" /\ last_call'.ret = "Ok") =>
              /\ ActiveIdx # 0
              /\ guesses[ActiveIdx].letters # <<>>
              /\ guesses[ActiveIdx].letters
                   = Append(guesses'[ActiveIdx].letters,
                            guesses[ActiveIdx].letters[
                                Len(guesses[ActiveIdx].letters)])
              /\ guesses' = [guesses EXCEPT ![ActiveIdx].letters =
                                 guesses'[ActiveIdx].letters]
              /\ ~guesses'[ActiveIdx].result.some
              /\ game_state' = game_state
              /\ answer' = answer
         ]_vars
    /\ [][ answer' = answer ]_vars

\* A lower-case letter accepted as the second letter of the second attempt.
C26_Witness ==
    /\ last_call = [op |-> "add_letter", ret |-> "Ok"]
    /\ ActiveIdx = 2
    /\ guesses[2].letters = <<"B", "A">>
    /\ guesses[1].state = "Complete"

\* Position of the most recently completed attempt, 0 when there is none.
LastComplete ==
    LET done == {k \in 1..Len(guesses) : guesses[k].state = "Complete"}
    IN  IF done = {} THEN 0 ELSE CHOOSE k \in done : \A j \in done : j <= k

Winning(g) == g.result.some /\ AllCorrect(g.result.val)

\* C28: the round is Won only if the most recently completed attempt is all
\* Correct and its letters are the upper-cased answer; Lost only if all
\* max_guesses attempts are Complete and none is all Correct; Active only if
\* no Complete attempt is all Correct.
C28_RoundStateMatchesAttempts ==
    /\ game_state = "Won" =>
           /\ LastComplete # 0
           /\ Winning(guesses[LastComplete])
           /\ guesses[LastComplete].letters = str_to_ascii_uppercase(answer)
    /\ game_state = "Lost" =>
           /\ Len(guesses) = game_options.max_guesses
           /\ \A k \in 1..Len(guesses) :
                  guesses[k].state = "Complete" /\ ~Winning(guesses[k])
    /\ game_state = "Active" =>
           \A k \in 1..Len(guesses) :
               guesses[k].state = "Complete" => ~Winning(guesses[k])

\* C29: while the round is Active and no attempt is Active, submit_word,
\* add_letter and delete_letter all fail with the same NoActiveGuess error
\* and change nothing.
C29_NoActiveAttemptError ==
    [][ ( /\ game_state = "Active"
          /\ ActiveIdx = 0
          /\ last_call'.op \in {"submit_word", "add_letter", "delete_letter"} )
        => ( /\ last_call'.ret = "NoActiveGuess"
             /\ UNCHANGED round_vars )
      ]_vars

\* C30: whatever characters add_letter accepted, a position scored Present
\* or Correct holds a character that occurs in the (upper-cased) answer.
C30_CreditedCharOccursInAnswer ==
    \A k \in 1..Len(guesses) :
        guesses[k].state = "Complete" =>
            \A i \in 1..Len(guesses[k].result.val) :
                guesses[k].result.val[i] \in {"Present", "Correct"} =>
                    \E p \in 1..Len(answer) :
                        to_ascii_uppercase(answer[p]) = guesses[k].letters[i]

\* Attempts that are Complete: one per successful submit_word so far.
CompleteSet(gs) == {k \in 1..Len(gs) : gs[k].state = "Complete"}

\* C31: every successful submit_word turns exactly one attempt Complete, a
\* round with max_guesses = N never sees more than N of them, and after N
\* of them (or fewer) it is Won or Lost.
C31_RoundEndsWithinMaxGuesses ==
    /\ [][ ( /\ last_call'.op = "submit_word"
             /\ last_call'.ret \in {"Active", "Won", "Lost"} )
           => \E k \in 1..Len(guesses) :
                  /\ k \notin CompleteSet(guesses)
                  /\ CompleteSet(guesses') = CompleteSet(guesses) \cup {k}
         ]_vars
    /\ [](Cardinality(CompleteSet(guesses)) <= game_options.max_guesses)
    /\ [](Cardinality(CompleteSet(guesses)) = game_options.max_guesses
             => game_state \in {"Won", "Lost"})

\* C15: the answer of a round built by GameData::new has word_length
\* characters, the max_length of every attempt.
C15_AnswerHasWordLength ==
    /\ Len(answer) = game_options.word_length
    /\ \A k \in 1..Len(guesses) : guesses[k].max_length = Len(answer)

\* ------------------------------------------------- scoring specification
\* One call check_guess(answer, word_length, guess_chars) as submit_word
\* makes it: guess_chars are letters as add_letter stored them (upper-cased),
\* word_length is their number, the answer is any line of a word list.
ALLOY == <<"A", "L", "L", "O", "Y">>
LOLLY == <<"L", "O", "L", "L", "Y">>
REACT == <<"R", "E", "A", "C", "T">>
TRACE == <<"T", "R", "A", "C", "E">>

ScoreAnswerChars == {"A", "B", "a"}
ScoreGuessChars == {to_ascii_uppercase(c) : c \in TypedChars}

ScoreAnswers ==
    UNION {[1..n -> ScoreAnswerChars] : n \in 1..(ScoreLen + 1)}
        \cup {ALLOY, REACT, <<"a", "l", "l", "o", "y">>}
ScoreGuesses ==
    UNION {[1..n -> ScoreGuessChars] : n \in 1..ScoreLen}
        \cup {LOLLY, TRACE}

RoundIdle ==
    /\ game_options = [word_length |-> 0, max_guesses |-> 0]
    /\ answer = <<>>
    /\ game_state = "Active"
    /\ guesses = <<>>
    /\ last_call = [op |-> "none", ret |-> "Ok"]
    /\ panicked = FALSE

InitScore ==
    /\ RoundIdle
    /\ ConfigIdle
    /\ DictIdle
    /\ RegIdle
    /\ AppIdle
    /\ sc_answer \in ScoreAnswers
    /\ sc_guess \in ScoreGuesses
    /\ sc_word_length = Len(sc_guess)
    /\ sc_pc = "start"
    /\ sc_st = check_guess_start(sc_answer, sc_word_length)

ScFirstPass ==
    /\ sc_pc = "start"
    /\ sc_st' = first_pass(sc_guess, sc_st)
    /\ sc_pc' = IF sc_st'.panic THEN "panic" ELSE "second"
    /\ UNCHANGED <<sc_answer, sc_word_length, sc_guess>>
    /\ UNCHANGED <<round_vars, last_call, panicked>>
    /\ UNCHANGED <<config_vars, dict_vars, reg_vars, app_vars>>

ScSecondPass ==
    /\ sc_pc = "second"
    /\ sc_st' = second_pass(sc_guess, sc_st)
    /\ sc_pc' = IF sc_st'.panic THEN "panic" ELSE "done"
    /\ UNCHANGED <<sc_answer, sc_word_length, sc_guess>>
    /\ UNCHANGED <<round_vars, last_call, panicked>>
    /\ UNCHANGED <<config_vars, dict_vars, reg_vars, app_vars>>

NextScore == ScFirstPass \/ ScSecondPass

SpecScore == InitScore /\ [][NextScore]_vars

\* ------------------------------------------------- properties, SpecScore
Count(L, s) == Cardinality({i \in 1..Len(s) : s[i] = L})
Min(a, b) == IF a <= b THEN a ELSE b
Outcomes == sc_st.result

\* Letters a guess can hold (add_letter stores upper-cased characters).
ScoreLetters == (ScoreGuessChars \cup {"L", "O", "Y", "R", "E", "C", "T"}) \ {NUL}

\* C1: for an answer and a full guess of the same length, and every letter
\* L, the number of guess positions holding L scored Correct or Present is
\* min(occurrences of L in the guess, occurrences of L in the upper-cased
\* answer); every other position is Absent.
C1_CreditEqualsMinCount ==
    (sc_pc \in {"done", "panic"} /\ Len(sc_answer) = Len(sc_guess)) =>
        /\ sc_pc = "done"
        /\ Len(Outcomes) = Len(sc_guess)
        /\ \A i \in 1..Len(Outcomes) :
               Outcomes[i] \in {"Correct", "Present", "Absent"}
        /\ \A L \in ScoreLetters :
               Cardinality({i \in 1..Len(sc_guess) :
                              /\ sc_guess[i] = L
                              /\ Outcomes[i] \in {"Correct", "Present"}})
                 = Min(Count(L, sc_guess),
                       Count(L, str_to_ascii_uppercase(sc_answer)))

\* A scored guess holding a letter more often than the answer does: one
\* occurrence is credited, a surplus one is Absent.
C1_Witness ==
    /\ sc_pc = "done"
    /\ Len(sc_answer) = Len(sc_guess)
    /\ \E i, j \in 1..Len(sc_guess) :
           /\ sc_guess[i] = sc_guess[j]
           /\ sc_guess[i] # NUL
           /\ Outcomes[i] = "Present"
           /\ Outcomes[j] = "Absent"

\* C3: answer ALLOY, guess LOLLY scores
\* [Present, Present, Correct, Absent, Correct].
C3_AlloyLolly ==
    (sc_answer = ALLOY /\ sc_guess = LOLLY /\ sc_pc \notin {"start", "second"})
        => ( /\ sc_pc = "done"
             /\ Outcomes = <<"Present", "Present", "Correct", "Absent",
                             "Correct">> )

C3_Witness ==
    /\ sc_answer = ALLOY
    /\ sc_guess = LOLLY
    /\ sc_pc = "done"
    /\ Outcomes[4] = "Absent"

\* C4 as stated: answer REACT, guess TRACE scores
\* [Present, Present, Correct, Present, Present].
C4_ReactTraceAsStated ==
    (sc_answer = REACT /\ sc_guess = TRACE /\ sc_pc \notin {"start", "second"})
        => ( /\ sc_pc = "done"
             /\ Outcomes = <<"Present", "Present", "Correct", "Present",
                             "Present">> )

\* C4 amended: answer REACT, guess TRACE scores
\* [Present, Present, Correct, Correct, Present]: the C at the fourth
\* position is at the answer's fourth position as well.
C4_ReactTrace ==
    (sc_answer = REACT /\ sc_guess = TRACE /\ sc_pc \notin {"start", "second"})
        => ( /\ sc_pc = "done"
             /\ Outcomes = <<"Present", "Present", "Correct", "Correct",
                             "Present">> )

C4_Witness ==
    /\ sc_answer = REACT
    /\ sc_guess = TRACE
    /\ sc_pc = "done"
    /\ Outcomes[3] = "Correct"
    /\ Outcomes[1] = "Present"

\* C27: in a scored guess, for every letter L, no position holding L is
\* Absent while a later position holding L is Present: Present goes to the
\* leftmost positions that are not Correct.
C27_PresentGoesLeftmost ==
    sc_pc = "done" =>
        \A L \in ScoreLetters :
            \A i, j \in 1..Len(sc_guess) :
                ( /\ i < j
                  /\ sc_guess[i] = L
                  /\ sc_guess[j] = L
                  /\ Outcomes[j] = "Present" )
                => Outcomes[i] # "Absent"

\* One letter three times: Correct, then Present, then Absent.
C27_Witness ==
    /\ sc_pc = "done"
    /\ Len(sc_guess) = 3
    /\ sc_guess[1] = sc_guess[2]
    /\ sc_guess[2] = sc_guess[3]
    /\ sc_guess[1] # NUL
    /\ Outcomes = <<"Correct", "Present", "Absent">>

\* ------------------------------------------- configuration specification
\* The hard-coded catalog get_dictionaries builds, in its order.
Dict(name, file, count) == [name |-> name, filename |-> file, length |-> count]

Catalog ==
    << Dict("Wordle", "data/wordle.txt", 5),
       Dict("Scrabble", "data/scrabble.txt", 4),
       Dict("Scrabble", "data/scrabble.txt", 5),
       Dict("Scrabble", "data/scrabble.txt", 6),
       Dict("Scrabble", "data/scrabble.txt", 7),
       Dict("Dutch", "data/dutch.txt", 4),
       Dict("Dutch", "data/dutch.txt", 5),
       Dict("Dutch", "data/dutch.txt", 6),
       Dict("Dutch", "data/dutch.txt", 7),
       Dict("Dutch", "data/dutch.txt", 8),
       Dict("French", "data/french.txt", 4),
       Dict("French", "data/french.txt", 5),
       Dict("French", "data/french.txt", 6),
       Dict("French", "data/french.txt", 7),
       Dict("French", "data/french.txt", 8),
       Dict("Italian", "data/italian.txt", 4),
       Dict("Italian", "data/italian.txt", 5),
       Dict("Italian", "data/italian.txt", 6),
       Dict("Italian", "data/italian.txt", 7),
       Dict("Italian", "data/italian.txt", 8) >>

\* dictionaries.iter().find(|x| x.name == name && x.length == length):
\* the position of the first match, 0 for None.  A GameOptions holds its
\* dictionary as an Arc into the catalog, modelled by the position.
find_dictionary(dictionaries, name, length) ==
    LET hits == {k \in 1..Len(dictionaries) :
                    /\ dictionaries[k].name = name
                    /\ dictionaries[k].length = length}
    IN  IF hits = {} THEN 0 ELSE CHOOSE k \in hits : \A j \in hits : k <= j

GameOptions_default ==
    LET found == find_dictionary(Catalog, "Wordle", 5)
        idx == IF found # 0 THEN found ELSE 1
    IN  [word_length |-> Catalog[idx].length,
         max_guesses |-> 6,
         dictionary |-> idx]

\* set_dictionary variants a slip in the code would produce.
set_dictionary_length_first(opts, name, length) ==
    LET idx == find_dictionary(Catalog, name, length)
    IN  IF idx = 0
        THEN [ret |-> "DictionaryError",
              opts |-> [opts EXCEPT !.word_length = length]]
        ELSE [ret |-> "Ok",
              opts |-> [opts EXCEPT !.dictionary = idx,
                                    !.word_length = length]]

set_dictionary_keeps_length(opts, name, length) ==
    LET idx == find_dictionary(Catalog, name, length)
    IN  IF idx = 0
        THEN [ret |-> "DictionaryError", opts |-> opts]
        ELSE [ret |-> "Ok", opts |-> [opts EXCEPT !.dictionary = idx]]

set_dictionary(opts, name, length) ==
    LET idx == find_dictionary(Catalog, name, length)
    IN  IF idx = 0
        THEN [ret |-> "DictionaryError", opts |-> opts]
        ELSE [ret |-> "Ok",
              opts |-> [opts EXCEPT !.dictionary = idx,
                                    !.word_length = length]]

OptionData_new ==
    [dictionary_name |-> "Wordle", dictionary_length |-> 5, max_tries |-> 6]

\* next / previous: [panic, od]; expect() panics when the current selection
\* is not in the list.
OptionData_next(o) ==
    LET idx == find_dictionary(Catalog, o.dictionary_name,
                               o.dictionary_length)
    IN  IF idx = 0 THEN [panic |-> TRUE, od |-> o]
        ELSE LET next == ((idx - 1 + 1) % Len(Catalog)) + 1
             IN  [panic |-> FALSE,
                  od |-> [o EXCEPT
                            !.dictionary_name = Catalog[next].name,
                            !.dictionary_length = Catalog[next].length]]

\* A previous that stops at the first entry instead of wrapping to the last.
OptionData_previous_no_wrap(o) ==
    LET idx == find_dictionary(Catalog, o.dictionary_name,
                               o.dictionary_length)
    IN  IF idx = 0 THEN [panic |-> TRUE, od |-> o]
        ELSE LET prev == IF idx - 1 = 0 THEN 1 ELSE idx - 1
             IN  [panic |-> FALSE,
                  od |-> [o EXCEPT
                            !.dictionary_name = Catalog[prev].name,
                            !.dictionary_length = Catalog[prev].length]]

OptionData_previous(o) ==
    LET idx == find_dictionary(Catalog, o.dictionary_name,
                               o.dictionary_length)
    IN  IF idx = 0 THEN [panic |-> TRUE, od |-> o]
        ELSE LET prev == IF idx - 1 = 0 THEN Len(Catalog) ELSE idx - 1
             IN  [panic |-> FALSE,
                  od |-> [o EXCEPT
                            !.dictionary_name = Catalog[prev].name,
                            !.dictionary_length = Catalog[prev].length]]

\* An apply that assigns max_guesses before it looks the dictionary up.
OptionData_apply_tries_first(o, opts) ==
    LET o1 == [opts EXCEPT !.max_guesses = o.max_tries]
        r == set_dictionary(o1, o.dictionary_name, o.dictionary_length)
    IN  r

OptionData_apply(o, opts) ==
    LET r == set_dictionary(opts, o.dictionary_name, o.dictionary_length)
    IN  IF r.ret # "Ok" THEN r
        ELSE [ret |-> "Ok", opts |-> [r.opts EXCEPT !.max_guesses = o.max_tries]]

increment_tries(o) ==
    LET inc == (o.max_tries + 1) % TwoPow16
    IN  [o EXCEPT !.max_tries = IF inc <= 10 THEN inc ELSE 10]

\* A decrement_tries that clamps before it subtracts.
decrement_tries_clamp_first(o) ==
    LET low == IF o.max_tries >= 3 THEN o.max_tries ELSE 3
    IN  [o EXCEPT !.max_tries = U16Sub(low, 1)]

decrement_tries(o) ==
    LET dec == U16Sub(o.max_tries, 1)
    IN  [o EXCEPT !.max_tries = IF dec >= 3 THEN dec ELSE 3]

\* Arguments of set_dictionary: names of the catalog and one that is not in
\* it, lengths the catalog has for some of these names and one it has for
\* none.
SetNames == {"Wordle", "Dutch", "Klingon"}
SetLengths == {4, 5, 9}

InitConfig ==
    /\ RoundIdle
    /\ ScoreIdle
    /\ DictIdle
    /\ RegIdle
    /\ AppIdle
    /\ cfg = GameOptions_default
    /\ cfg_ret = "none"
    /\ od = OptionData_new

ConfigFrame ==
    /\ UNCHANGED <<round_vars, last_call>>
    /\ UNCHANGED <<score_vars, dict_vars, reg_vars, app_vars>>

SetDictionary(name, length) ==
    /\ ~panicked
    /\ LET r == set_dictionary(cfg, name, length)
       IN  /\ cfg' = r.opts
           /\ cfg_ret' = r.ret
    /\ UNCHANGED <<od, panicked>>
    /\ ConfigFrame

OdNext ==
    /\ ~panicked
    /\ LET r == OptionData_next(od)
       IN  /\ od' = r.od
           /\ panicked' = r.panic
    /\ UNCHANGED <<cfg, cfg_ret>>
    /\ ConfigFrame

OdPrevious ==
    /\ ~panicked
    /\ LET r == OptionData_previous(od)
       IN  /\ od' = r.od
           /\ panicked' = r.panic
    /\ UNCHANGED <<cfg, cfg_ret>>
    /\ ConfigFrame

OdIncrementTries ==
    /\ ~panicked
    /\ od' = increment_tries(od)
    /\ UNCHANGED <<cfg, cfg_ret, panicked>>
    /\ ConfigFrame

OdDecrementTries ==
    /\ ~panicked
    /\ od' = decrement_tries(od)
    /\ UNCHANGED <<cfg, cfg_ret, panicked>>
    /\ ConfigFrame

OdApply ==
    /\ ~panicked
    /\ LET r == OptionData_apply(od, cfg)
       IN  /\ cfg' = r.opts
           /\ cfg_ret' = r.ret
    /\ UNCHANGED <<od, panicked>>
    /\ ConfigFrame

NextConfig ==
    \/ \E name \in SetNames, length \in SetLengths :
           SetDictionary(name, length)
    \/ OdNext
    \/ OdPrevious
    \/ OdIncrementTries
    \/ OdDecrementTries
    \/ OdApply

SpecConfig == InitConfig /\ [][NextConfig]_vars

\* ------------------------------------------------ properties, SpecConfig
InCatalog(name, length) == find_dictionary(Catalog, name, length) # 0

\* C12: set_dictionary with a (name, length) that is not in the registry
\* fails with DictionaryError (SourceNotFound) and leaves word_length and
\* the dictionary of the GameOptions unchanged.
C12_UnknownSourceRejected ==
    [][ \A name \in SetNames, length \in SetLengths :
          (~InCatalog(name, length) /\ SetDictionary(name, length))
            => ( /\ cfg_ret' = "DictionaryError"
                 /\ cfg'.word_length = cfg.word_length
                 /\ cfg'.dictionary = cfg.dictionary )
      ]_vars

\* A refused set_dictionary on options that were changed before.
C12_Witness ==
    /\ cfg_ret = "DictionaryError"
    /\ cfg.dictionary # GameOptions_default.dictionary
    /\ cfg.word_length # GameOptions_default.word_length

\* C13: after default construction and any sequence of set_dictionary
\* calls, succeeding or failing, direct or through OptionData::apply,
\* word_length equals the length of the GameOptions' dictionary.
C13_WordLengthIsSourceLength ==
    /\ cfg.dictionary \in 1..Len(Catalog)
    /\ cfg.word_length = Catalog[cfg.dictionary].length

\* Options that were changed by apply and then saw a failed set_dictionary.
C13_Witness ==
    /\ cfg_ret = "DictionaryError"
    /\ cfg.max_guesses # GameOptions_default.max_guesses
    /\ cfg.word_length = 8

\* C33: from a new OptionData, increment_tries and decrement_tries keep
\* max_tries within 3..10 (the u16 never wraps), so every configuration
\* applied from the options screen has max_guesses >= 1.
C33_TriesStayWithinRange ==
    /\ [](od.max_tries \in 3..10)
    /\ [][ OdApply => ( /\ cfg'.max_guesses = od.max_tries
                        /\ cfg'.max_guesses >= 1 ) ]_vars

\* The largest max_tries selected after the smallest was applied.
C33_Witness ==
    /\ cfg_ret = "Ok"
    /\ cfg.max_guesses = 3
    /\ od.max_tries = 10

\* C34: from a new OptionData, next and previous keep the selection in the
\* catalog: their lookup never fails, apply never fails with
\* DictionaryError, previous undoes next and next undoes previous.
C34_SelectionStaysInCatalog ==
    /\ [](InCatalog(od.dictionary_name, od.dictionary_length))
    /\ [](~panicked)
    /\ [](~OptionData_next(od).panic /\ ~OptionData_previous(od).panic)
    /\ [](OptionData_previous(OptionData_next(od).od).od = od)
    /\ [](OptionData_next(OptionData_previous(od).od).od = od)
    /\ [][ OdApply => cfg_ret' = "Ok" ]_vars

\* The last entry of the catalog selected and applied.
C34_Witness ==
    /\ od.dictionary_name = Catalog[Len(Catalog)].name
    /\ od.dictionary_length = Catalog[Len(Catalog)].length
    /\ cfg.dictionary = Len(Catalog)
    /\ cfg_ret = "Ok"

\* ---------------------------------------------- dictionary specification
\* One Dictionary and its backing file.  all_words is a Lazy holding the
\* closure load_dictionary returns; random_word calls that closure, which
\* reads the file, on every call.
MaxDictCalls == 3

\* Contents of the backing file, as the lines content.lines() yields.
FileContents ==
    { <<>>,
      << <<"A", "B">> >>,
      << <<"A">>, <<"B", "A", "B">> >>,
      << <<"A">>, <<"A", "B">>, <<"b", "a">>, <<"B", "A", "B">> >> }

NoWord == [ok |-> FALSE, err |-> "none", word |-> <<>>]
Ok(w) == [ok |-> TRUE, err |-> "none", word |-> w]
Err(x) == [ok |-> FALSE, err |-> x, word |-> <<>>]

\* The closure of load_dictionary applied to the file: Ok(lines) or
\* FileLoadError.
load_dictionary(file) ==
    IF file.readable THEN [ok |-> TRUE, contents |-> file.lines]
    ELSE [ok |-> FALSE, contents |-> <<>>]

\* What random_word may return: any line of the contents (choose draws at
\* random), WordNotFound when there is no line, FileLoadError when the read
\* fails.
random_word(file) ==
    LET loaded == load_dictionary(file)
    IN  IF ~loaded.ok THEN {Err("FileLoadError")}
        ELSE IF Len(loaded.contents) = 0 THEN {Err("WordNotFound")}
        ELSE {Ok(loaded.contents[n]) : n \in 1..Len(loaded.contents)}

InitDict ==
    /\ RoundIdle
    /\ ScoreIdle
    /\ ConfigIdle
    /\ RegIdle
    /\ AppIdle
    /\ d_length \in 1..MaxWordLength
    /\ d_lazy = "uninit"
    /\ d_file \in [readable : BOOLEAN, lines : FileContents]
    /\ d_reads = 0
    /\ d_calls = 0
    /\ d_first = "none"
    /\ d_ret = NoWord

DictFrame ==
    /\ UNCHANGED <<round_vars, last_call, panicked>>
    /\ UNCHANGED <<score_vars, config_vars, reg_vars, app_vars>>

RandomWord ==
    /\ d_calls < MaxDictCalls
    /\ d_calls' = d_calls + 1
    /\ d_lazy' = "closure"
    /\ d_reads' = d_reads + 1
    /\ \E r \in random_word(d_file) :
          /\ d_ret' = r
          /\ d_first' = IF d_calls = 0
                        THEN (IF r.ok THEN "Ok" ELSE r.err)
                        ELSE d_first
    /\ UNCHANGED <<d_length, d_file>>
    /\ DictFrame

\* The environment makes the backing file readable or unreadable.
FileChange ==
    /\ d_file' = [d_file EXCEPT !.readable = ~@]
    /\ UNCHANGED <<d_length, d_lazy, d_reads, d_calls, d_first, d_ret>>
    /\ DictFrame

NextDict == RandomWord \/ FileChange

SpecDict == InitDict /\ [][NextDict]_vars

\* -------------------------------------------------- properties, SpecDict
LinesOfLength(lines, n) == {k \in 1..Len(lines) : Len(lines[k]) = n}

\* C14: a successful random_word returns a line of the list with exactly
\* `length` characters.
C14_WordHasDictionaryLength ==
    d_ret.ok =>
        /\ \E k \in 1..Len(d_file.lines) : d_file.lines[k] = d_ret.word
        /\ Len(d_ret.word) = d_length

\* C16: over any sequence of random_word calls the backing file is read at
\* most once.
C16_FileReadAtMostOnce == d_reads <= 1

\* C17: when the first random_word call failed with FileLoadError, every
\* later call fails with FileLoadError, whatever the file has become.
C17_LoadFailureIsPermanent ==
    [][ (d_first = "FileLoadError" /\ d_calls' = d_calls + 1)
        => d_ret' = Err("FileLoadError") ]_vars

\* C18: random_word on a readable list without a line of exactly `length`
\* characters fails with WordNotFound.
C18_NoWordOfLength ==
    [][ ( /\ d_calls' = d_calls + 1
          /\ d_file.readable
          /\ LinesOfLength(d_file.lines, d_length) = {} )
        => d_ret' = Err("WordNotFound") ]_vars

\* ------------------------------------------------ registry specification
\* DICTIONARY_CACHE is a thread_local OnceLock: every thread has its own
\* cell.  A catalog instance is named by the number of the construction
\* that made it; a handle (an Arc<Dictionary>) by the catalog instance and
\* the position in it.
MaxRegCalls == 3

Handles(cat) == [k \in 1..Len(Catalog) |-> [cat |-> cat, idx |-> k]]

\* A get_dictionaries that builds the catalog on every call.
get_dictionaries_rebuild(cache, built) ==
    [cache |-> built + 1, built |-> built + 1, handles |-> Handles(built + 1)]

\* get_dictionaries on the calling thread's cell: get_or_init builds the
\* catalog when the cell is empty; the handles are clones of the cell's Arcs.
get_dictionaries(cache, built) ==
    IF cache = 0
    THEN [cache |-> built + 1, built |-> built + 1,
          handles |-> Handles(built + 1)]
    ELSE [cache |-> cache, built |-> built, handles |-> Handles(cache)]

InitRegistry ==
    /\ RoundIdle
    /\ ScoreIdle
    /\ ConfigIdle
    /\ DictIdle
    /\ RegIdle
    /\ AppIdle

GetDictionaries(t) ==
    /\ reg_calls[t] < MaxRegCalls
    /\ LET r == get_dictionaries(reg_cache[t], reg_built)
       IN  /\ reg_cache' = [reg_cache EXCEPT ![t] = r.cache]
           /\ reg_built' = r.built
           /\ reg_got' = [reg_got EXCEPT ![t] = r.handles]
    /\ reg_prev' = [reg_prev EXCEPT ![t] = reg_got[t]]
    /\ reg_calls' = [reg_calls EXCEPT ![t] = @ + 1]
    /\ UNCHANGED <<round_vars, last_call, panicked>>
    /\ UNCHANGED <<score_vars, config_vars, dict_vars, app_vars>>

NextRegistry == \E t \in Threads : GetDictionaries(t)

SpecRegistry == InitRegistry /\ [][NextRegistry]_vars

\* ---------------------------------------------- properties, SpecRegistry
\* C19: when several threads call get_dictionaries, the catalog is
\* constructed once in the process and all threads' handles refer to the
\* same Dictionary instances.
C19_OneCatalogPerProcess ==
    /\ reg_built <= 1
    /\ \A t, u \in Threads :
           (reg_calls[t] >= 1 /\ reg_calls[u] >= 1) => reg_got[t] = reg_got[u]

\* C20: within one thread any two get_dictionaries calls return the same
\* handles in the same order, the catalog is built by the thread's first
\* call only, and no (name, length) pair occurs twice in it.
C20_IdempotentPerThread ==
    /\ reg_built = Cardinality({t \in Threads : reg_calls[t] >= 1})
    /\ \A t \in Threads :
           /\ reg_calls[t] >= 1 =>
                  /\ Len(reg_got[t]) = Len(Catalog)
                  /\ \A i, j \in 1..Len(reg_got[t]) :
                         ( /\ Catalog[reg_got[t][i].idx].name
                                = Catalog[reg_got[t][j].idx].name
                           /\ Catalog[reg_got[t][i].idx].length
                                = Catalog[reg_got[t][j].idx].length )
                           => i = j
           /\ reg_calls[t] >= 2 => reg_got[t] = reg_prev[t]

\* A thread that called twice while another thread built its own catalog
\* before it.
C20_Witness ==
    \E t, u \in Threads :
        /\ t # u
        /\ reg_calls[t] >= 2
        /\ reg_calls[u] >= 1
        /\ reg_cache[t] > reg_cache[u]
        /\ reg_got[t] = reg_prev[t]

\* ----------------------------------------------- lifecycle specification
\* A caller that owns a GameOptions (Application::game_options) and the round
\* built from it (Application::game_state): it changes the options, applies
\* configuration inputs from the options screen, starts rounds and plays.
MaxTries == 2

FileNames == {Catalog[k].filename : k \in 1..Len(Catalog)}

GoodFile(lines) == [readable |-> TRUE, lines |-> lines]
BadFile == [readable |-> FALSE, lines |-> <<>>]

WordleLines == << <<"A", "A", "A", "A", "A">>, <<"A", "A", "A", "A", "B">> >>
DutchLines == << <<"A", "A", "A", "A">>, <<"A", "A", "A", "A", "B">> >>

FilesWith(wordle, dutch) ==
    [f \in FileNames |->
        IF f = "data/wordle.txt" THEN wordle
        ELSE IF f = "data/dutch.txt" THEN dutch
        ELSE GoodFile(<< <<"A", "A", "A", "A">> >>)]

\* The word-list files on disk: either wordle.txt cannot be read or
\* dutch.txt is empty.
FileSystems ==
    { FilesWith(BadFile, GoodFile(DutchLines)),
      FilesWith(GoodFile(WordleLines), GoodFile(<<>>)) }

\* Configuration inputs: names and lengths, in the catalog and not.
InputNames == {"Dutch", "Klingon"}
InputLengths == {4, 5}

\* GameOptions::random_word: the dictionary's random_word with every error
\* mapped to GameError::DictionaryError.
GameOptions_random_word(opts, fsys) ==
    { IF r.ok THEN r ELSE Err("DictionaryError") :
          r \in random_word(fsys[Catalog[opts.dictionary].filename]) }

\* GameData::new(opts): the rounds it may build; panic when random_word
\* failed (unwrap_or_else panics).
GameData_new_of(opts, fsys) ==
    { IF r.ok
      THEN [panic |-> FALSE,
            game_state |-> "Active",
            game_options |-> opts,
            answer |-> r.word,
            guesses |-> make_vec(opts.word_length, opts.max_guesses)]
      ELSE [panic |-> TRUE,
            game_state |-> "Active",
            game_options |-> opts,
            answer |-> <<>>,
            guesses |-> <<>>] :
          r \in GameOptions_random_word(opts, fsys) }

\* Application::new_game with options opts: self.game_state = Some(new(opts)).
new_game(opts) ==
    \E g \in GameData_new_of(opts, fs) :
        IF g.panic
        THEN /\ panicked' = TRUE
             /\ last_call' = [op |-> "new", ret |-> "panic"]
             /\ UNCHANGED <<round_vars, app_game>>
        ELSE /\ panicked' = FALSE
             /\ last_call' = [op |-> "new", ret |-> "Ok"]
             /\ game_state' = g.game_state
             /\ game_options' = g.game_options
             /\ answer' = g.answer
             /\ guesses' = g.guesses
             /\ app_game' = "Some"

InitLifecycle ==
    /\ RoundIdle
    /\ ScoreIdle
    /\ DictIdle
    /\ RegIdle
    /\ cfg = GameOptions_default
    /\ cfg_ret = "none"
    /\ od = [dictionary_name |-> "", dictionary_length |-> 0, max_tries |-> 0]
    /\ app_game = "None"
    /\ app_ret = "none"
    /\ fs \in FileSystems
    /\ app_state = "Game"
    /\ app_options = "None"
    /\ app_keys = 0

NewGame ==
    /\ ~panicked
    /\ new_game(cfg)
    /\ UNCHANGED <<config_vars, app_ret, fs>>
    /\ UNCHANGED <<app_state, app_options, app_keys>>
    /\ UNCHANGED <<score_vars, dict_vars, reg_vars>>

\* A round that refers to the caller's options instead of holding a copy.
SetMaxGuesses_shared(n) ==
    /\ ~panicked
    /\ cfg' = [cfg EXCEPT !.max_guesses = n]
    /\ game_options' = IF app_game = "Some"
                       THEN [game_options EXCEPT !.max_guesses = n]
                       ELSE game_options
    /\ UNCHANGED <<cfg_ret, od, panicked>>
    /\ UNCHANGED <<game_state, answer, guesses, last_call>>
    /\ UNCHANGED <<score_vars, dict_vars, reg_vars, app_vars>>

\* opts.max_guesses = n (a public field).
SetMaxGuesses(n) ==
    /\ ~panicked
    /\ cfg' = [cfg EXCEPT !.max_guesses = n]
    /\ UNCHANGED <<cfg_ret, od, panicked>>
    /\ ConfigFrame

\* The Enter arm of step_options for an OptionData holding the
\* configuration input (name, length, tries): apply(..)?; new_game().
OptionsEnter(name, length, tries) ==
    /\ ~panicked
    /\ LET o == [dictionary_name |-> name, dictionary_length |-> length,
                 max_tries |-> tries]
           r == OptionData_apply(o, cfg)
       IN  /\ cfg' = r.opts
           /\ cfg_ret' = r.ret
           /\ IF r.ret # "Ok"
              THEN /\ app_ret' = "Err"
                   /\ UNCHANGED <<round_vars, last_call, panicked, app_game>>
              ELSE /\ app_ret' = "Ok"
                   /\ new_game(r.opts)
    /\ UNCHANGED <<od, fs, app_state, app_options, app_keys>>
    /\ UNCHANGED <<score_vars, dict_vars, reg_vars>>

TypeLetter == app_game = "Some" /\ AddLetter("A")
EraseLetter == app_game = "Some" /\ DeleteLetter
Submit == app_game = "Some" /\ SubmitWord

NextLifecycle ==
    \/ NewGame
    \/ \E name \in InputNames, length \in InputLengths :
           SetDictionary(name, length)
    \/ \E n \in 0..MaxTries : SetMaxGuesses(n)
    \/ \E name \in InputNames, length \in InputLengths, tries \in 1..MaxTries :
           OptionsEnter(name, length, tries)
    \/ TypeLetter
    \/ EraseLetter
    \/ Submit

SpecLifecycle == InitLifecycle /\ [][NextLifecycle]_vars

\* --------------------------------------------- properties, SpecLifecycle
\* The options' dictionary has no word to give: its file cannot be read or
\* holds no line of the dictionary's length.
CannotServe(opts) ==
    LET d == Catalog[opts.dictionary]
        f == fs[d.filename]
    IN  \/ ~f.readable
        \/ LinesOfLength(f.lines, d.length) = {}

\* C21: when the options' dictionary cannot serve a word, new_game does not
\* panic: it builds no round and reports the failure as an error.
C21_NewRoundFailureIsAnError ==
    [][ (NewGame /\ CannotServe(cfg))
        => ( /\ ~panicked'
             /\ last_call' = [op |-> "new", ret |-> "DictionaryError"]
             /\ UNCHANGED <<round_vars, app_game>> )
      ]_vars

\* A step that builds a round.
BuildsRound ==
    \/ NewGame
    \/ \E name \in InputNames, length \in InputLengths, tries \in 1..MaxTries :
           OptionsEnter(name, length, tries)

\* C22: changing the GameOptions a round was built from (set_dictionary, or
\* assigning max_guesses) changes nothing in the round: its number of
\* attempts, their max_length, the word length used for scoring and the
\* max_guesses that decides Lost remain those of construction.
C22_RoundKeepsItsSnapshot ==
    /\ [][ \A name \in InputNames, length \in InputLengths :
              (app_game = "Some" /\ SetDictionary(name, length))
                => UNCHANGED round_vars ]_vars
    /\ [][ \A n \in 0..MaxTries :
              (app_game = "Some" /\ SetMaxGuesses(n))
                => UNCHANGED round_vars ]_vars
    /\ [][ (app_game = "Some" /\ ~BuildsRound)
           => ( /\ game_options' = game_options
                /\ Len(guesses') = Len(guesses)
                /\ \A k \in 1..Len(guesses) :
                       guesses'[k].max_length = guesses[k].max_length ) ]_vars
    /\ [](app_game = "Some" =>
             /\ Len(guesses) = game_options.max_guesses
             /\ \A k \in 1..Len(guesses) :
                    /\ guesses[k].max_length = game_options.word_length
                    /\ guesses[k].state = "Complete" =>
                           Len(guesses[k].result.val)
                               = game_options.word_length
             /\ game_state = "Lost" =>
                    \A k \in 1..game_options.max_guesses :
                        guesses[k].state = "Complete")

\* A round lost by its own max_guesses and word length after the options
\* it was built from were given another dictionary and another max_guesses.
C22_Witness ==
    /\ app_game = "Some"
    /\ game_state = "Lost"
    /\ cfg.max_guesses > game_options.max_guesses
    /\ cfg.word_length # game_options.word_length
    /\ cfg.dictionary # game_options.dictionary

\* C24: applying an input whose (name, length) is not in the catalog returns
\* one error and keeps the options entirely (dictionary, word_length,
\* max_guesses); no round is started from it.
C24_InvalidInputKeepsConfiguration ==
    [][ \A name \in InputNames, length \in InputLengths, tries \in 1..MaxTries :
          (~InCatalog(name, length) /\ OptionsEnter(name, length, tries))
            => ( /\ cfg_ret' = "DictionaryError"
                 /\ app_ret' = "Err"
                 /\ cfg' = cfg
                 /\ ~panicked'
                 /\ UNCHANGED <<round_vars, last_call, app_game>> )
      ]_vars

\* An invalid input refused while a round from earlier options is running.
C24_Witness ==
    /\ app_ret = "Err"
    /\ cfg_ret = "DictionaryError"
    /\ app_game = "Some"
    /\ cfg.dictionary # GameOptions_default.dictionary
    /\ cfg.max_guesses = 1

\* --------------------------------------------- application specification
\* main and main_loop: Application::new(GameOptions::default()), new_game(),
\* then one key event per turn of the loop, handled by step_game or
\* step_options according to the screen.
MaxKeys == 5

\* Characters of KeyCode::Char events, without and with the control key.
KeyChars == {"A", "1"}
CtrlChars == {"N", "o", "Q", "A"}

\* The word-list files on disk while the application runs: all readable, or
\* scrabble.txt unreadable.
AppFileSystems ==
    { FilesWith(GoodFile(WordleLines), GoodFile(DutchLines)),
      [FilesWith(GoodFile(WordleLines), GoodFile(DutchLines))
           EXCEPT !["data/scrabble.txt"] = BadFile] }

is_alphabetic(c) ==
    \E n \in 1..Len(AsciiLower) : AsciiLower[n] = c \/ AsciiUpper[n] = c

\* draw_game indexes the round by the application's options: while the round
\* is Active, guesses[max_guesses - y - 1] for y in 0..max_guesses and
\* values()[x] for x in 0..word_length.  TRUE when an index is out of bounds.
draw_game_panics(opts, gstate, gs) ==
    /\ gstate = "Active"
    /\ \E y \in 0..(opts.max_guesses - 1) :
           LET idx == U16Sub(U16Sub(opts.max_guesses, y), 1) + 1
           IN  \/ idx > Len(gs)
               \/ \E x \in 0..(opts.word_length - 1) :
                      x + 1 > Len(values(gs[idx]))

InitApp ==
    /\ RoundIdle
    /\ ScoreIdle
    /\ DictIdle
    /\ RegIdle
    /\ cfg = GameOptions_default
    /\ cfg_ret = "none"
    /\ od = [dictionary_name |-> "", dictionary_length |-> 0, max_tries |-> 0]
    /\ app_game = "None"
    /\ app_ret = "none"
    /\ fs \in AppFileSystems
    /\ app_state = "Game"
    /\ app_options = "None"
    /\ app_keys = 0

\* Parts of the state no key handler writes.
AppFrame == UNCHANGED <<score_vars, dict_vars, reg_vars, fs>>

\* main: wordle.new_game() before the loop starts.
MainNewGame ==
    /\ app_game = "None"
    /\ NewGame

\* One turn of step_game: draw the round, then handle the key.
StepGame(handle) ==
    /\ ~panicked
    /\ app_state = "Game"
    /\ app_game = "Some"
    /\ app_keys < MaxKeys
    /\ app_keys' = app_keys + 1
    /\ AppFrame
    /\ IF draw_game_panics(cfg, game_state, guesses)
       THEN /\ panicked' = TRUE
            /\ last_call' = [op |-> "draw_game", ret |-> "panic"]
            /\ UNCHANGED <<round_vars, config_vars>>
            /\ UNCHANGED <<app_game, app_ret, app_state, app_options>>
       ELSE handle

\* The result of a `?` on a GameData call.
Propagate(ret) ==
    IF ret \in FailureRets THEN "Err"
    ELSE IF ret = "panic" THEN "none"
    ELSE "Ok"

GameKeyEnter ==
    StepGame(
        LET r == submit_word(game_state, answer, game_options, guesses)
        IN  /\ game_state' = r.game_state
            /\ guesses' = r.guesses
            /\ last_call' = [op |-> "submit_word", ret |-> r.ret]
            /\ panicked' = (r.ret = "panic")
            /\ app_ret' = Propagate(r.ret)
            /\ UNCHANGED <<answer, game_options, config_vars>>
            /\ UNCHANGED <<app_game, app_state, app_options>>)

GameKeyChar(c) ==
    StepGame(
        IF is_alphabetic(c)
        THEN LET r == add_letter(game_state, guesses, c)
             IN  /\ guesses' = r.guesses
                 /\ last_call' = [op |-> "add_letter", ret |-> r.ret]
                 /\ app_ret' = Propagate(r.ret)
                 /\ UNCHANGED <<game_state, answer, game_options, panicked>>
                 /\ UNCHANGED <<config_vars, app_game, app_state, app_options>>
        ELSE /\ app_ret' = "Ok"
             /\ UNCHANGED <<round_vars, last_call, panicked, config_vars>>
             /\ UNCHANGED <<app_game, app_state, app_options>>)

\* Application::options: options_state.get_or_insert_with(OptionData::new).
options ==
    /\ od' = IF app_options = "None" THEN OptionData_new ELSE od
    /\ app_options' = "Some"
    /\ app_state' = "Options"

GameKeyCtrl(c) ==
    StepGame(
        /\ app_ret' = "Ok"
        /\ IF to_ascii_uppercase(c) = "N"
           THEN /\ new_game(cfg)
                /\ UNCHANGED <<config_vars, app_state, app_options>>
           ELSE IF to_ascii_uppercase(c) = "O"
           THEN /\ options
                /\ UNCHANGED <<round_vars, last_call, panicked, app_game>>
                /\ UNCHANGED <<cfg, cfg_ret>>
           ELSE IF to_ascii_uppercase(c) = "Q"
           THEN /\ app_state' = "Quit"
                /\ UNCHANGED <<round_vars, last_call, panicked, app_game>>
                /\ UNCHANGED <<config_vars, app_options>>
           ELSE /\ UNCHANGED <<round_vars, last_call, panicked, app_game>>
                /\ UNCHANGED <<config_vars, app_state, app_options>>)

GameKeyBackspace ==
    StepGame(
        LET r == delete_letter(game_state, guesses)
        IN  /\ guesses' = r.guesses
            /\ last_call' = [op |-> "delete_letter", ret |-> r.ret]
            /\ app_ret' = Propagate(r.ret)
            /\ UNCHANGED <<game_state, answer, game_options, panicked>>
            /\ UNCHANGED <<config_vars, app_game, app_state, app_options>>)

GameKeyEsc ==
    StepGame(
        /\ app_state' = "Quit"
        /\ app_ret' = "Ok"
        /\ UNCHANGED <<round_vars, last_call, panicked, app_game>>
        /\ UNCHANGED <<config_vars, app_options>>)

\* One turn of step_options: draw the options, then handle the key.
StepOptions(handle) ==
    /\ ~panicked
    /\ app_state = "Options"
    /\ app_options = "Some"
    /\ app_keys < MaxKeys
    /\ app_keys' = app_keys + 1
    /\ AppFrame
    /\ handle

\* An Enter arm that applies the options and returns to the running game.
OptionsKeyEnter_keeps_game ==
    StepOptions(
        LET r == OptionData_apply(od, cfg)
        IN  /\ cfg' = r.opts
            /\ cfg_ret' = r.ret
            /\ UNCHANGED <<od, app_options>>
            /\ UNCHANGED <<round_vars, last_call, panicked, app_game>>
            /\ IF r.ret # "Ok"
               THEN app_ret' = "Err" /\ app_state' = app_state
               ELSE app_ret' = "Ok" /\ app_state' = "Game")

\* Enter: options_state.apply(&mut app.game_options)?; app.new_game();
\* app.app_state = Game.  A panic in new_game leaves the rest undone.
OptionsKeyEnter ==
    StepOptions(
        LET r == OptionData_apply(od, cfg)
        IN  /\ cfg' = r.opts
            /\ cfg_ret' = r.ret
            /\ UNCHANGED <<od, app_options>>
            /\ IF r.ret # "Ok"
               THEN /\ app_ret' = "Err"
                    /\ UNCHANGED <<round_vars, last_call, panicked>>
                    /\ UNCHANGED <<app_game, app_state>>
               ELSE /\ new_game(r.opts)
                    /\ app_ret' = IF panicked' THEN app_ret ELSE "Ok"
                    /\ app_state' = IF panicked' THEN app_state ELSE "Game")

\* Esc: app.new_game(); app.app_state = Game.
OptionsKeyEsc ==
    StepOptions(
        /\ new_game(cfg)
        /\ app_ret' = IF panicked' THEN app_ret ELSE "Ok"
        /\ app_state' = IF panicked' THEN app_state ELSE "Game"
        /\ UNCHANGED <<config_vars, app_options>>)

\* Up / Down / Left / Right.
OptionsKeyUp ==
    StepOptions(
        LET r == OptionData_previous(od)
        IN  /\ od' = r.od
            /\ panicked' = r.panic
            /\ app_ret' = "Ok"
            /\ UNCHANGED <<round_vars, last_call, cfg, cfg_ret>>
            /\ UNCHANGED <<app_game, app_state, app_options>>)

OptionsKeyDown ==
    StepOptions(
        LET r == OptionData_next(od)
        IN  /\ od' = r.od
            /\ panicked' = r.panic
            /\ app_ret' = "Ok"
            /\ UNCHANGED <<round_vars, last_call, cfg, cfg_ret>>
            /\ UNCHANGED <<app_game, app_state, app_options>>)

OptionsKeyLeft ==
    StepOptions(
        /\ od' = decrement_tries(od)
        /\ app_ret' = "Ok"
        /\ UNCHANGED <<round_vars, last_call, panicked, cfg, cfg_ret>>
        /\ UNCHANGED <<app_game, app_state, app_options>>)

OptionsKeyRight ==
    StepOptions(
        /\ od' = increment_tries(od)
        /\ app_ret' = "Ok"
        /\ UNCHANGED <<round_vars, last_call, panicked, cfg, cfg_ret>>
        /\ UNCHANGED <<app_game, app_state, app_options>>)

NextApp ==
    \/ MainNewGame
    \/ GameKeyEnter
    \/ \E c \in KeyChars : GameKeyChar(c)
    \/ \E c \in CtrlChars : GameKeyCtrl(c)
    \/ GameKeyBackspace
    \/ GameKeyEsc
    \/ OptionsKeyEnter
    \/ OptionsKeyEsc
    \/ OptionsKeyUp
    \/ OptionsKeyDown
    \/ OptionsKeyLeft
    \/ OptionsKeyRight

SpecApp == InitApp /\ [][NextApp]_vars

\* ---------------------------------------------------- properties, SpecApp
\* The loop is running a game: main has built it and nothing has panicked.
Running == app_game = "Some" /\ ~panicked

\* C32: after any sequence of key events the application's GameOptions
\* agree with the running game: the game has max_guesses attempts, each of
\* max_length word_length, and draw_game's indexing by the application's
\* options is never out of bounds.
C32_OptionsMatchRunningGame ==
    /\ Running =>
           /\ game_options.word_length = cfg.word_length
           /\ game_options.max_guesses = cfg.max_guesses
           /\ Len(guesses) = cfg.max_guesses
           /\ \A k \in 1..Len(guesses) :
                  guesses[k].max_length = cfg.word_length
           /\ ~draw_game_panics(cfg, game_state, guesses)
    /\ last_call # [op |-> "draw_game", ret |-> "panic"]

\* A letter typed in a game started from the options screen with another
\* dictionary and another number of tries.
C32_Witness ==
    /\ Running
    /\ app_state = "Game"
    /\ cfg.word_length = 4
    /\ cfg.max_guesses = 5
    /\ Len(guesses) = 5
    /\ guesses[1].letters = <<"A">>

====
